---- MODULE Spec2Model ----
(***************************************************************************)
(* The queue transport of src/pipeline_utils/queue_transport.py:           *)
(* QueueInputTransport (polling loop, start/stop/cancel),                  *)
(* QueueOutputTransport (_write_frame) and QueueTransport (facade).        *)
(*                                                                         *)
(* Scheduling is asyncio's: one event loop, a coroutine runs without       *)
(* interruption from one await to the next.  Every action below is one     *)
(* such uninterrupted stretch of a coroutine.                              *)
(***************************************************************************)
EXTENDS Integers, Sequences, FiniteSets, TLC

\* ---------------------------------------------------------------- bounds
MaxTasks == 2        \* loop tasks ever created by start()
MaxPuts == 2         \* items the producer ever puts on the inbound queue
MaxPending == 2      \* stop()/cancel() calls suspended in their join at once
MaxHeartbeats == 1   \* the heartbeat counter saturates here
MaxItems == 3        \* items on the inbound queue before start() (OrderSpec)
MaxWrites == 3       \* calls of send_message/write_raw_audio_frames ever made
NumFacades == 2      \* QueueTransport objects constructed
MaxFacadeCalls == 2  \* calls of input(), and of output(), on one facade

TaskIds == 1..MaxTasks
Kinds == {"stop", "cancel"}
WriteIds == 1..MaxWrites
FacadeIds == 1..NumFacades

VARIABLES
    queue,          \* asyncio.Queue: items waiting, oldest first
    unfinished,     \* asyncio.Queue's count of items put and not yet task_done
    nput,           \* history: items put so far; the k-th item put is k
    stop_event,     \* self._stop_server_event
    server_task,    \* self._server_task: 0 is None, else a task id
    tasks,          \* every task: where its coroutine is suspended
    ntasks,         \* tasks created so far
    pending,        \* calls of stop()/cancel() suspended awaiting a task
    forwarded,      \* history: payloads of audio frames process_frame accepted
    heartbeats,     \* history: empty frames process_frame accepted (saturating)
    dropped,        \* history: items dequeued whose forwarding did not complete
    stopReturned,   \* history: some call of stop() has returned
    startsSince,    \* history: calls of start() since the last stop()/cancel()
                    \*          activity (a call or a return of either): 0, 1,
                    \*          or 2 for two or more
    extraLoop,      \* history: a start() other than the first of them
                    \*          created a task
    caught,         \* history: <<item, task>> for every call of stop() made
                    \*          while the task it joins had that item in flight
    websocket,      \* QueueOutputTransport: self._websocket
    writes,         \* QueueOutputTransport: every call of _write_frame
    wire,           \* history: the calls whose payload was handed to send, in order
    serialized,     \* history: the calls whose serialize returned, in order
    overlap,        \* history: a call was made while another was in flight
    facades,        \* every QueueTransport: _input, _output, _audio_config
    inputs,         \* every QueueInputTransport constructed by a facade
    outputs,        \* every QueueOutputTransport constructed by a facade
    inputLog,       \* history: per facade, what each call of input() returned
    outputLog       \* history: per facade, what each call of output() did

inVars == <<queue, unfinished, nput, stop_event, server_task, tasks, ntasks,
            pending, forwarded, heartbeats, dropped, stopReturned,
            startsSince, extraLoop, caught>>

outVars == <<websocket, writes, wire, serialized, overlap>>

facVars == <<facades, inputs, outputs, inputLog, outputLog>>

vars == <<inVars, outVars, facVars>>

\* ------------------------------------------------------------ task states
\* pc of a task of _server_task_handler:
\*   "none"      not created
\*   "created"   created by create_task, coroutine not yet entered
\*   "get"       suspended in wait_for(self._queue.get(), 0.1)      (line 50)
\*   "proc"      suspended in process_frame(audio_frame)            (line 57)
\*   "hb"        suspended in process_frame(empty_frame)            (line 67)
\*   "wait"      suspended in self._stop_server_event.wait()        (line 79)
\*   "done"      coroutine returned
\*   "cancelled" CancelledError left the coroutine
\*   "failed"    another exception left the coroutine
NoTask == [pc |-> "none", item |-> 0, cancelReq |-> FALSE]

Finished(t) == tasks[t].pc \in {"done", "cancelled", "failed"}

Alive(t) == tasks[t].pc \in {"created", "get", "proc", "hb", "wait"}

PendingTotal ==
    LET S == Kinds \X TaskIds
        RECURSIVE Sum(_)
        Sum(R) == IF R = {} THEN 0
                  ELSE LET x == CHOOSE y \in R : TRUE
                       IN pending[x] + Sum(R \ {x})
    IN Sum(S)

\* ---------------------------------------------------------------- Init
\* QueueInputTransport.__init__ (lines 30-38), given an inbound queue on which
\* the producer has already put n items.
InitInput(n) ==
    /\ queue = [i \in 1..n |-> i]
    /\ unfinished = n
    /\ nput = n
    /\ stop_event = FALSE
    /\ server_task = 0
    /\ tasks = [t \in TaskIds |-> NoTask]
    /\ ntasks = 0
    /\ caught = {}
    /\ pending = [k \in Kinds \X TaskIds |-> 0]
    /\ forwarded = <<>>
    /\ heartbeats = 0
    /\ dropped = {}
    /\ stopReturned = FALSE
    /\ startsSince = 0
    /\ extraLoop = FALSE

\* ------------------------------------------------------------- producer
\* The external producer: queue.put_nowait(item); the queue is unbounded.
Put ==
    /\ nput < MaxPuts
    /\ nput' = nput + 1
    /\ queue' = Append(queue, nput + 1)
    /\ unfinished' = unfinished + 1
    /\ UNCHANGED <<stop_event, server_task, tasks, ntasks, pending, forwarded,
                   heartbeats, dropped, stopReturned,
                   startsSince, extraLoop>>
    /\ UNCHANGED <<caught, outVars, facVars>>

\* ---------------------------------------------------------------- start
StartAlwaysCreates == TRUE

\* start() (lines 40-43): create the task only when self._server_task is falsy.
StartCreates == server_task = 0

start ==
    /\ IF StartCreates
       THEN /\ ntasks < MaxTasks
            /\ ntasks' = ntasks + 1
            /\ tasks' = [tasks EXCEPT ![ntasks + 1] =
                            [NoTask EXCEPT !.pc = "created"]]
            /\ server_task' = ntasks + 1
            /\ extraLoop' = (extraLoop \/ startsSince > 0)
       ELSE /\ UNCHANGED <<ntasks, tasks, server_task, extraLoop>>
    /\ startsSince' = IF startsSince = 0 THEN 1 ELSE 2
    /\ UNCHANGED <<queue, unfinished, nput, stop_event, pending, forwarded,
                   heartbeats, dropped, stopReturned>>
    /\ UNCHANGED <<caught, outVars, facVars>>

\* ------------------------------------------------- _server_task_handler
LoopRunsOn == "get"

\* The loop test of line 47 followed, when the flag is set, by lines 76-79:
\* Event.wait() on a set event returns without suspending, so the coroutine
\* returns in the same stretch.
LoopTest == IF stop_event THEN "done" ELSE "get"

\* Lines 76-79 reached from the handler of line 72: wait on the stop event.
StopWait == IF stop_event THEN "done" ELSE "wait"

\* Where a CancelledError thrown into the coroutine at `pc` leaves it.
\* Before the first step the body (and its try) was never entered; at line 79
\* the await is outside every try; at lines 50, 57 and 67 the outer
\* `except asyncio.CancelledError` (line 72) catches it and falls through
\* to lines 76-79.
OnCancelled(pc) ==
    CASE pc = "created" -> "cancelled"
      [] pc = "wait" -> "cancelled"
      [] OTHER -> StopWait

Saturate(n) == IF n < MaxHeartbeats THEN n + 1 ELSE n

\* First step of the task: the coroutine is entered and runs to its first await.
Begin(t) ==
    /\ tasks[t].pc = "created"
    /\ ~tasks[t].cancelReq
    /\ tasks' = [tasks EXCEPT ![t].pc = LoopTest]
    /\ UNCHANGED <<queue, unfinished, nput, stop_event, server_task, ntasks,
                   pending, forwarded, heartbeats, dropped, stopReturned,
                   startsSince, extraLoop>>
    /\ UNCHANGED <<caught, outVars, facVars>>

\* Line 50: queue.get() delivers the oldest item; line 51-57: the frame is
\* built and process_frame is awaited.
NewestItem(q) == q[Len(q)]

\* asyncio.Queue is first-in-first-out: get() hands out the oldest item.
NextItem(q) == Head(q)

Fetched(t) ==
    /\ tasks[t].pc = "get"
    /\ ~tasks[t].cancelReq
    /\ queue # <<>>
    /\ queue' = SelectSeq(queue, LAMBDA x : x # NextItem(queue))
    /\ tasks' = [tasks EXCEPT ![t].pc = "proc", ![t].item = NextItem(queue)]
    /\ UNCHANGED <<unfinished, nput, stop_event, server_task, ntasks, pending,
                   forwarded, heartbeats, dropped, stopReturned,
                   startsSince, extraLoop>>
    /\ UNCHANGED <<caught, outVars, facVars>>

\* Lines 60-67: no item within the timeout; the empty frame is built and
\* process_frame is awaited inside the except clause.
FetchTimeoutTarget == "hb"

FetchTimeout(t) ==
    /\ tasks[t].pc = "get"
    /\ ~tasks[t].cancelReq
    /\ queue = <<>>
    /\ tasks' = [tasks EXCEPT ![t].pc = FetchTimeoutTarget]
    /\ UNCHANGED <<queue, unfinished, nput, stop_event, server_task, ntasks,
                   pending, forwarded, heartbeats, dropped, stopReturned,
                   startsSince, extraLoop>>
    /\ UNCHANGED <<caught, outVars, facVars>>

\* Lines 57-59: process_frame returned; task_done; back to the loop test.
ProcessReturns(t) ==
    /\ tasks[t].pc = "proc"
    /\ ~tasks[t].cancelReq
    /\ forwarded' = Append(forwarded, tasks[t].item)
    /\ unfinished' = unfinished - 1
    /\ tasks' = [tasks EXCEPT ![t].pc = LoopTest, ![t].item = 0]
    /\ UNCHANGED <<queue, nput, stop_event, server_task, ntasks, pending,
                   heartbeats, dropped, stopReturned,
                   startsSince, extraLoop>>
    /\ UNCHANGED <<caught, outVars, facVars>>

\* Lines 57, 69-71: process_frame raised an Exception that is no TimeoutError;
\* line 59 is skipped, the error is logged, back to the loop test.
ProcessRaises(t) ==
    /\ tasks[t].pc = "proc"
    /\ ~tasks[t].cancelReq
    /\ dropped' = dropped \cup {tasks[t].item}
    /\ tasks' = [tasks EXCEPT ![t].pc = LoopTest, ![t].item = 0]
    /\ UNCHANGED <<queue, unfinished, nput, stop_event, server_task, ntasks,
                   pending, forwarded, heartbeats, stopReturned,
                   startsSince, extraLoop>>
    /\ UNCHANGED <<caught, outVars, facVars>>

\* Lines 57, 60-67: process_frame raised a TimeoutError; the clause of line 60
\* cannot tell it from a fetch timeout and forwards an empty frame.
ProcessRaisesTimeout(t) ==
    /\ tasks[t].pc = "proc"
    /\ ~tasks[t].cancelReq
    /\ dropped' = dropped \cup {tasks[t].item}
    /\ tasks' = [tasks EXCEPT ![t].pc = "hb", ![t].item = 0]
    /\ UNCHANGED <<queue, unfinished, nput, stop_event, server_task, ntasks,
                   pending, forwarded, heartbeats, stopReturned,
                   startsSince, extraLoop>>
    /\ UNCHANGED <<caught, outVars, facVars>>

\* Line 67: process_frame(empty_frame) returned; back to the loop test.
HeartbeatReturns(t) ==
    /\ tasks[t].pc = "hb"
    /\ ~tasks[t].cancelReq
    /\ heartbeats' = Saturate(heartbeats)
    /\ tasks' = [tasks EXCEPT ![t].pc = LoopTest]
    /\ UNCHANGED <<queue, unfinished, nput, stop_event, server_task, ntasks,
                   pending, forwarded, dropped, stopReturned,
                   startsSince, extraLoop>>
    /\ UNCHANGED <<caught, outVars, facVars>>

\* Line 67: process_frame(empty_frame) raised an Exception.  The await stands
\* inside the clause of line 60, so the sibling clause of line 69 does not
\* apply; the outer try catches CancelledError only: the exception leaves the
\* coroutine.
HeartbeatErrorTarget == "failed"

HeartbeatRaises(t) ==
    /\ tasks[t].pc = "hb"
    /\ ~tasks[t].cancelReq
    /\ tasks' = [tasks EXCEPT ![t].pc = HeartbeatErrorTarget]
    /\ UNCHANGED <<queue, unfinished, nput, stop_event, server_task, ntasks,
                   pending, forwarded, heartbeats, dropped, stopReturned,
                   startsSince, extraLoop>>
    /\ UNCHANGED <<caught, outVars, facVars>>

\* task.cancel() was requested: the next step of the task throws
\* CancelledError into the coroutine where it is suspended.
Cancelled(t) ==
    /\ Alive(t)
    /\ tasks[t].cancelReq
    /\ tasks' = [tasks EXCEPT
                    ![t].pc = OnCancelled(tasks[t].pc),
                    ![t].item = 0,
                    ![t].cancelReq = FALSE]
    /\ dropped' = IF tasks[t].pc = "proc"
                  THEN dropped \cup {tasks[t].item} ELSE dropped
    /\ UNCHANGED <<queue, unfinished, nput, stop_event, server_task, ntasks,
                   pending, forwarded, heartbeats, stopReturned,
                   startsSince, extraLoop>>
    /\ UNCHANGED <<caught, outVars, facVars>>

\* Line 79: the stop event the coroutine waits for has been set.
StopSeen(t) ==
    /\ tasks[t].pc = "wait"
    /\ ~tasks[t].cancelReq
    /\ stop_event
    /\ tasks' = [tasks EXCEPT ![t].pc = "done"]
    /\ UNCHANGED <<queue, unfinished, nput, stop_event, server_task, ntasks,
                   pending, forwarded, heartbeats, dropped, stopReturned,
                   startsSince, extraLoop>>
    /\ UNCHANGED <<caught, outVars, facVars>>

TaskStep(t) ==
    \/ Begin(t)
    \/ Fetched(t)
    \/ FetchTimeout(t)
    \/ ProcessReturns(t)
    \/ ProcessRaises(t)
    \/ ProcessRaisesTimeout(t)
    \/ HeartbeatReturns(t)
    \/ HeartbeatRaises(t)
    \/ Cancelled(t)
    \/ StopSeen(t)

\* ----------------------------------------------------------- stop, cancel
\* A stop()/cancel() call has returned: it counts as activity between starts.
Joined(k, t) ==
    /\ server_task' = 0
    /\ stopReturned' = (stopReturned \/ k = "stop")
    /\ startsSince' = 0

FlagLeftAlone == stop_event

\* Line 87: the flag stop() raises.
StopFlag == TRUE

\* stop() (lines 85-90) up to its await: the event is set; with a task handle
\* the call awaits the task (wait_for_task), which does not suspend when the
\* task has already finished; without one the call returns.
stop ==
    /\ stop_event' = StopFlag
    /\ IF server_task = 0
       THEN /\ stopReturned' = TRUE
            /\ startsSince' = 0
            /\ UNCHANGED <<server_task, pending>>
       ELSE IF Finished(server_task)
       THEN /\ Joined("stop", server_task)
            /\ UNCHANGED pending
       ELSE /\ PendingTotal < MaxPending
            /\ pending' = [pending EXCEPT ![<<"stop", server_task>>] = @ + 1]
            /\ startsSince' = 0
            /\ UNCHANGED <<server_task, stopReturned>>
    /\ caught' = IF server_task # 0 /\ tasks[server_task].pc = "proc"
                 THEN caught \cup {<<tasks[server_task].item, server_task>>}
                 ELSE caught
    /\ UNCHANGED <<queue, unfinished, nput, tasks, ntasks, forwarded,
                   heartbeats, dropped, extraLoop>>
    /\ UNCHANGED <<outVars, facVars>>

\* cancel() (lines 92-96) up to its await: with a task handle, cancel_task
\* requests the task's cancellation and awaits the task.
cancel ==
    /\ IF server_task = 0
       THEN /\ startsSince' = 0
            /\ UNCHANGED <<server_task, pending, tasks, stopReturned>>
       ELSE IF Finished(server_task)
       THEN /\ Joined("cancel", server_task)
            /\ UNCHANGED <<pending, tasks>>
       ELSE /\ PendingTotal < MaxPending
            /\ tasks' = [tasks EXCEPT ![server_task].cancelReq = TRUE]
            /\ pending' = [pending EXCEPT ![<<"cancel", server_task>>] = @ + 1]
            /\ startsSince' = 0
            /\ UNCHANGED <<server_task, stopReturned>>
    /\ UNCHANGED <<queue, unfinished, nput, stop_event, ntasks, forwarded,
                   heartbeats, dropped, extraLoop>>
    /\ UNCHANGED <<caught, outVars, facVars>>

JoinNotAwaited(t) == TRUE

\* What the join of stop()/cancel() waits for.
JoinReady(t) == Finished(t)

\* Lines 89-90 and 95-96 after the await: the awaited task has finished, the
\* call resumes, drops the handle and returns.
Return(k, t) ==
    /\ pending[<<k, t>>] > 0
    /\ JoinReady(t)
    /\ pending' = [pending EXCEPT ![<<k, t>>] = @ - 1]
    /\ Joined(k, t)
    /\ UNCHANGED <<queue, unfinished, nput, stop_event, tasks, ntasks,
                   forwarded, heartbeats, dropped, extraLoop>>
    /\ UNCHANGED <<caught, outVars, facVars>>

\* ------------------------------------------------- QueueOutputTransport
\* A call of _write_frame:
\*   pc       "idle" not made, "serialize" suspended in serializer.serialize
\*            (line 128), "send" suspended in self._websocket.send (line 130),
\*            "returned" the call returned, "raised" an exception left it
\*   kind     "audio" from write_raw_audio_frames, "message" from send_message
\*   payload  what serialize returned: -1 is nothing yet, 0 is an empty
\*            payload, else the call's own id
\*   conn     self._websocket as line 129 read it ("unread" when it did not)
\*   logged   line 132 logged an exception
NoWrite == [pc |-> "idle", kind |-> "audio", payload |-> -1, conn |-> "unread",
            logged |-> FALSE]

\* QueueOutputTransport.__init__ (lines 100-103) assigns _transport and _queue
\* only: _websocket is whatever the base class and the collaborators leave,
\* absent ("unset") or None ("none").
InitOutput(ws) ==
    /\ websocket = ws
    /\ writes = [c \in WriteIds |-> NoWrite]
    /\ wire = <<>>
    /\ serialized = <<>>
    /\ overlap = FALSE

\* A collaborator attaches or detaches the connection.
Attach(ws) ==
    /\ ws \in {"none", "live"}
    /\ websocket # ws
    /\ websocket' = ws
    /\ UNCHANGED <<writes, wire, serialized, overlap>>
    /\ UNCHANGED <<inVars, facVars>>

\* send_message (lines 115-116) and write_raw_audio_frames (lines 118-124):
\* both build or pass a frame and await _write_frame, which awaits serialize.
WriteCall(c, kind) ==
    /\ writes[c].pc = "idle"
    /\ \A d \in WriteIds : d < c => writes[d].pc # "idle"
    /\ writes' = [writes EXCEPT ![c].pc = "serialize", ![c].kind = kind]
    /\ overlap' = (overlap \/
                   \E d \in WriteIds : writes[d].pc \in {"serialize", "send"})
    /\ UNCHANGED <<websocket, wire, serialized>>
    /\ UNCHANGED <<inVars, facVars>>

SendsWithoutConnection(payload, ws) == payload > 0

\* Line 129: `payload and self._websocket`.
ShouldSend(payload, ws) == payload > 0 /\ ws = "live"

\* Line 129 raises AttributeError when it reads an attribute that is absent;
\* `and` reads it only for a non-empty payload.
ReadFails(payload, ws) == payload > 0 /\ ws = "unset"

SentAhead(w, c) == <<c>> \o w

\* Line 130: the connection takes the payloads in the order send is called.
Sent(w, c) == Append(w, c)

WriteErrorPropagates == "raised"

\* Lines 131-132: what an Exception raised in the try block does to the call.
OnWriteError == "returned"

\* Lines 128-130: serialize returned `payload`; the test of line 129 and, when
\* it passes, the call of send run in the same stretch.
Serialized(c, payload) ==
    /\ writes[c].pc = "serialize"
    /\ payload \in {0, c}
    /\ IF ReadFails(payload, websocket)
       THEN /\ writes' = [writes EXCEPT ![c].pc = OnWriteError,
                                        ![c].payload = payload,
                                        ![c].conn = websocket,
                                        ![c].logged = TRUE]
            /\ UNCHANGED wire
       ELSE IF ShouldSend(payload, websocket)
       THEN /\ writes' = [writes EXCEPT ![c].pc = "send",
                                        ![c].payload = payload,
                                        ![c].conn = websocket]
            /\ wire' = Sent(wire, c)
       ELSE /\ writes' = [writes EXCEPT
                             ![c].pc = "returned",
                             ![c].payload = payload,
                             ![c].conn = IF payload > 0 THEN websocket
                                         ELSE "unread"]
            /\ UNCHANGED wire
    /\ serialized' = Append(serialized, c)
    /\ UNCHANGED <<websocket, overlap>>
    /\ UNCHANGED <<inVars, facVars>>

\* Lines 128, 131-132: serialize raised an Exception.
SerializeRaises(c) ==
    /\ writes[c].pc = "serialize"
    /\ writes' = [writes EXCEPT ![c].pc = OnWriteError, ![c].logged = TRUE]
    /\ UNCHANGED <<websocket, wire, serialized, overlap>>
    /\ UNCHANGED <<inVars, facVars>>

\* Line 130: send returned.
SendReturns(c) ==
    /\ writes[c].pc = "send"
    /\ writes' = [writes EXCEPT ![c].pc = "returned"]
    /\ UNCHANGED <<websocket, wire, serialized, overlap>>
    /\ UNCHANGED <<inVars, facVars>>

\* Lines 130-132: send raised an Exception.
SendRaises(c) ==
    /\ writes[c].pc = "send"
    /\ writes' = [writes EXCEPT ![c].pc = OnWriteError, ![c].logged = TRUE]
    /\ UNCHANGED <<websocket, wire, serialized, overlap>>
    /\ UNCHANGED <<inVars, facVars>>

\* ----------------------------------------------------------------- facade
\* AudioConfig (lines 21-26) and its defaults.
DefaultSampleRate == 16000
DefaultNumChannels == 1

AudioConfig == [sample_rate |-> DefaultSampleRate,
                num_channels |-> DefaultNumChannels]

\* The audio_config argument of QueueTransport.__init__: None (written as the
\* record of -1s) or a configuration of the caller's.
NoAudioConfig == [sample_rate |-> -1, num_channels |-> -1]
CallerAudioConfig == [sample_rate |-> 8000, num_channels |-> 2]

\* Lines 38 and 149: `audio_config or AudioConfig()`.
OrAudioConfig(audio_config) ==
    IF audio_config = NoAudioConfig THEN AudioConfig ELSE audio_config

\* The queues handed to the facade f at construction (lines 147-148).
input_queue(f) == <<"input_queue", f>>
output_queue(f) == <<"output_queue", f>>

\* QueueTransport.__init__ (lines 136-149), one facade per id, each given an
\* audio_config argument of the set `given`.
InitFacade(given) ==
    /\ facades \in [FacadeIds ->
                      {[input |-> 0, output |-> 0,
                        audio_config |-> OrAudioConfig(a)] : a \in given}]
    /\ inputs = <<>>
    /\ outputs = <<>>
    /\ inputLog = [f \in FacadeIds |-> <<>>]
    /\ outputLog = [f \in FacadeIds |-> <<>>]

\* QueueInputTransport.__init__ (lines 30-38): what the adapter is bound to.
QueueInputTransport(transport, q, audio_config) ==
    [transport |-> transport, queue |-> q,
     audio_config |-> OrAudioConfig(audio_config)]

InputAlwaysMissing(held) == TRUE

\* Line 152: `if not self._input`.
InputMissing(held) == held = 0

\* input() (lines 151-156): constructs the Input Adapter when none is held,
\* returns the one held.
input(f) ==
    /\ Len(inputLog[f]) < MaxFacadeCalls
    /\ IF InputMissing(facades[f].input)
       THEN /\ inputs' = Append(inputs,
                   QueueInputTransport(f, input_queue(f),
                                       facades[f].audio_config))
            /\ facades' = [facades EXCEPT ![f].input = Len(inputs) + 1]
            /\ inputLog' = [inputLog EXCEPT ![f] = Append(@, Len(inputs) + 1)]
       ELSE /\ inputLog' = [inputLog EXCEPT ![f] = Append(@, facades[f].input)]
            /\ UNCHANGED <<facades, inputs>>
    /\ UNCHANGED <<outputs, outputLog>>
    /\ UNCHANGED <<inVars, outVars>>

\* QueueOutputTransport.__init__ (line 100): its required positional
\* parameters after self; **kwargs takes keyword arguments only.
OutputInitParams == <<"transport", "queue">>

\* Line 160: the positional arguments output() constructs the adapter with.
OutputCallArgs(f) == <<output_queue(f)>>

\* Python binds positional arguments to parameters that have no default:
\* the call raises TypeError before the body runs unless each has one.
Binds(params, args) == Len(args) = Len(params)

\* QueueOutputTransport.__init__ (lines 100-103) once the arguments bind.
QueueOutputTransport(args) == [transport |-> args[1], queue |-> args[2]]

\* output() (lines 158-161): constructs the Output Adapter when none is held
\* and returns the one held.  A call whose constructor raises TypeError leaves
\* _output unassigned; the log records 0 for it.
output(f) ==
    /\ Len(outputLog[f]) < MaxFacadeCalls
    /\ IF facades[f].output # 0
       THEN /\ outputLog' = [outputLog EXCEPT
                                ![f] = Append(@, facades[f].output)]
            /\ UNCHANGED <<facades, outputs>>
       ELSE IF Binds(OutputInitParams, OutputCallArgs(f))
       THEN /\ outputs' = Append(outputs,
                                 QueueOutputTransport(OutputCallArgs(f)))
            /\ facades' = [facades EXCEPT ![f].output = Len(outputs) + 1]
            /\ outputLog' = [outputLog EXCEPT
                                ![f] = Append(@, Len(outputs) + 1)]
       ELSE /\ outputLog' = [outputLog EXCEPT ![f] = Append(@, 0)]
            /\ UNCHANGED <<facades, outputs>>
    /\ UNCHANGED <<inputs, inputLog>>
    /\ UNCHANGED <<inVars, outVars>>


\* ------------------------------------------------------- specifications
\* The Input Adapter under any interleaving of its calls and its tasks.
Init == InitInput(0) /\ InitOutput("unset") /\ InitFacade({NoAudioConfig})

Next ==
    \/ Put
    \/ start
    \/ stop
    \/ cancel
    \/ \E t \in TaskIds : TaskStep(t)
    \/ \E k \in Kinds, t \in TaskIds : Return(k, t)

Spec == Init /\ [][Next]_vars

\* The Input Adapter in the life of one pipeline: start() creates the loop
\* task once (later calls find the handle set), then stop() and cancel() in
\* any number and interleaving; no start() after the handle was dropped.
\* Scheduling is asyncio's: a task whose await has completed is resumed (the
\* fetch returns an item or times out, process_frame returns or raises, a set
\* event wakes its waiter), and so is a call whose awaited task has finished.
LifeStart == (ntasks = 0 \/ server_task # 0) /\ start

LifeNext ==
    \/ Put
    \/ LifeStart
    \/ stop
    \/ cancel
    \/ \E t \in TaskIds : TaskStep(t)
    \/ \E k \in Kinds, t \in TaskIds : Return(k, t)

LifeSpec ==
    /\ Init
    /\ [][LifeNext]_vars
    /\ \A t \in TaskIds : WF_vars(TaskStep(t))
    /\ \A k \in Kinds, t \in TaskIds : WF_vars(Return(k, t))

\* The Input Adapter started on a queue filled beforehand, with neither
\* producer nor stop()/cancel(): the loop runs on, every step of a task is
\* eventually taken (the event loop resumes a task whose await has completed,
\* and process_frame completes one way or the other).
OrderInit ==
    /\ \E n \in 0..MaxItems : InitInput(n)
    /\ InitOutput("unset")
    /\ InitFacade({NoAudioConfig})

OrderNext ==
    \/ start
    \/ \E t \in TaskIds : Begin(t)
    \/ \E t \in TaskIds : Fetched(t)
    \/ \E t \in TaskIds : FetchTimeout(t)
    \/ \E t \in TaskIds : ProcessReturns(t)
    \/ \E t \in TaskIds : ProcessRaises(t)
    \/ \E t \in TaskIds : ProcessRaisesTimeout(t)
    \/ \E t \in TaskIds : HeartbeatReturns(t)
    \/ \E t \in TaskIds : HeartbeatRaises(t)

OrderSpec ==
    /\ OrderInit
    /\ [][OrderNext]_vars
    /\ \A t \in TaskIds : WF_vars(TaskStep(t))

\* The Output Adapter under any interleaving of its calls.
OutInit ==
    /\ InitInput(0)
    /\ \E ws \in {"unset", "none"} : InitOutput(ws)
    /\ InitFacade({NoAudioConfig})

OutNext ==
    \/ \E ws \in {"none", "live"} : Attach(ws)
    \/ \E c \in WriteIds, kind \in {"audio", "message"} : WriteCall(c, kind)
    \/ \E c \in WriteIds, payload \in 0..MaxWrites : Serialized(c, payload)
    \/ \E c \in WriteIds : SerializeRaises(c)
    \/ \E c \in WriteIds : SendReturns(c)
    \/ \E c \in WriteIds : SendRaises(c)

OutSpec == OutInit /\ [][OutNext]_vars

\* The facades under any sequence of calls of input() and output(); no
\* adapter is started.
FacadeInit ==
    /\ InitInput(0)
    /\ InitOutput("unset")
    /\ InitFacade({NoAudioConfig, CallerAudioConfig})

FacadeNext ==
    \/ \E f \in FacadeIds : input(f)
    \/ \E f \in FacadeIds : output(f)

FacadeSpec == FacadeInit /\ [][FacadeNext]_vars
\* ---------------------------------------------------------------- claims
Input == [i \in 1..nput |-> i]

InFlight == {tasks[t].item : t \in {u \in TaskIds : tasks[u].pc = "proc"}}

Queued == {queue[i] : i \in 1..Len(queue)}

IsPrefix(s, t) == Len(s) <= Len(t) /\ \A i \in 1..Len(s) : s[i] = t[i]

\* The input sequence without the items still queued, in flight or dropped.
Delivered ==
    SelectSeq(Input, LAMBDA i : i \notin Queued \cup InFlight \cup dropped)

LoopStopped == \E t \in TaskIds : Finished(t)

C2_NoFrameAfterStop ==
    [][stopReturned => forwarded' = forwarded /\ heartbeats' = heartbeats]_vars

StopPending(t) == pending[<<"stop", t>>] > 0

C4_CancelPropagates ==
    [][\A t \in TaskIds :
          (/\ tasks[t].cancelReq
           /\ tasks[t].pc \in {"get", "proc", "hb"}
           /\ tasks'[t] # tasks[t]) => tasks'[t].pc = "cancelled"]_vars

\* C5: of the calls of start() with no stop()/cancel() between them, only
\* the first creates a loop task.
C5_OneLoopPerStarts == ~extraLoop

\* start() was called again while the loop it had created was forwarding a
\* frame, and there is still one task.
C5_Witness ==
    /\ startsSince = 2
    /\ ntasks = 1
    /\ tasks[1].pc = "proc"

\* C6: no error raised while a frame is forwarded ends the loop task.
C6_ErrorsStayInLoop == \A t \in TaskIds : tasks[t].pc # "failed"

\* C7: whenever no item is in the hands of the loop, every item taken from
\* the queue has been acknowledged by one task_done.
C7_AckedEqualsDequeued == InFlight = {} => unfinished = Len(queue)

\* C8: a fetch that times out is followed by the forwarding of one empty
\* frame and then by the next fetch, unless stop() or cancel() ended the loop:
\* the loop keeps emitting heartbeats until it is stopped or cancelled.
C8_HeartbeatEveryTimeout ==
    /\ [][\A t \in TaskIds :
            (/\ tasks[t].pc = "get"
             /\ tasks'[t].pc # "get"
             /\ ~tasks[t].cancelReq
             /\ queue = <<>>) => tasks'[t].pc = "hb"]_vars
    /\ \A t \in TaskIds :
          (tasks[t].pc = "hb" /\ dropped = {}) ~>
              (tasks[t].pc \in {"get", "done", "wait", "cancelled"})

\* C9: no exception of the serializer or of send leaves a write call: a call
\* that met one has logged it and returned, and the step that handles the
\* exception changes nothing else of the adapter (its connection, the other
\* calls, what was handed to send).
C9_WriteErrorsSwallowed ==
    /\ [](\A c \in WriteIds :
            /\ writes[c].pc # "raised"
            /\ writes[c].logged => writes[c].pc = "returned")
    /\ [][\A c \in WriteIds :
            (writes'[c].logged /\ ~writes[c].logged) =>
                /\ websocket' = websocket
                /\ wire' = wire
                /\ \A d \in WriteIds \ {c} : writes'[d] = writes[d]]_vars

\* A call met an exception and returned, and a later call has handed its
\* payload to send and returned.
C9_Witness ==
    \E c, d \in WriteIds :
        /\ c < d
        /\ writes[c].logged
        /\ writes[c].pc = "returned"
        /\ writes[d].pc = "returned"
        /\ ~writes[d].logged
        /\ wire = <<d>>

Handed(c) == \E i \in 1..Len(wire) : wire[i] = c

\* C10: a call hands its payload to send exactly when serialize returned a
\* non-empty payload and line 129 found a live connection, and it does so
\* once; a call that found the payload empty or the connection None returns
\* without having logged an error; no call raises.
C10_SendIffPayloadAndConnection ==
    \A c \in WriteIds :
        /\ writes[c].pc # "raised"
        /\ Handed(c) <=> (writes[c].payload > 0 /\ writes[c].conn = "live")
        /\ Cardinality({i \in 1..Len(wire) : wire[i] = c}) <= 1
        /\ (writes[c].payload = 0 \/ writes[c].conn = "none") =>
               ~writes[c].logged /\ writes[c].pc = "returned"

\* One call returned without sending because no connection was attached,
\* another because its payload was empty, and a third handed its payload to
\* send.
C10_Witness ==
    \E c, d, e \in WriteIds :
        /\ writes[c].pc = "returned" /\ writes[c].payload > 0
        /\ writes[c].conn = "none" /\ ~writes[c].logged
        /\ writes[d].pc = "returned" /\ writes[d].payload = 0
        /\ writes[d].conn = "unread" /\ ~writes[d].logged
        /\ wire = <<e>>

\* C11: on one facade every call of input() returned the same Input Adapter;
\* at most one Input Adapter was constructed for the facade; the one returned
\* is bound to that facade, to its inbound queue and to its audio
\* configuration.
C11_OneInputPerFacade ==
    \A f \in FacadeIds :
        /\ \A i, j \in 1..Len(inputLog[f]) : inputLog[f][i] = inputLog[f][j]
        /\ Cardinality({a \in 1..Len(inputs) : inputs[a].transport = f}) <= 1
        /\ \A i \in 1..Len(inputLog[f]) :
               /\ inputLog[f][i] \in 1..Len(inputs)
               /\ inputLog[f][i] = facades[f].input
               /\ inputs[inputLog[f][i]] =
                      [transport |-> f, queue |-> input_queue(f),
                       audio_config |-> facades[f].audio_config]

\* Two facades, one configured by its caller and one by default, each asked
\* twice for its Input Adapter: two adapters exist, one per facade.
C11_Witness ==
    \E f, g \in FacadeIds :
        /\ facades[f].audio_config = AudioConfig
        /\ facades[g].audio_config = CallerAudioConfig
        /\ Len(inputLog[f]) = 2 /\ Len(inputLog[g]) = 2
        /\ inputLog[f][2] # inputLog[g][2]
        /\ Len(inputs) = 2

\* C12: every call of output() returned an Output Adapter bound to the facade
\* and to its outbound queue, the same one at every call on that facade.
C12_OutputConstructed ==
    \A f \in FacadeIds :
        \A i \in 1..Len(outputLog[f]) :
            /\ outputLog[f][i] \in 1..Len(outputs)
            /\ outputLog[f][i] = outputLog[f][1]
            /\ outputs[outputLog[f][i]] =
                   [transport |-> f, queue |-> output_queue(f)]

\* C13: while no task was ever started, a call of stop() or cancel() changes
\* no state of the adapter: the stop flag and the task handle stay as
\* constructed, so that a later start() finds a fresh adapter.
C13_NoTaskNoOp ==
    [][(ntasks = 0 /\ ntasks' = 0) =>
           (stop_event' = stop_event /\ server_task' = server_task)]_vars

\* C14: a loop task that has finished, by returning or by raising, finished
\* under a raised stop flag: the coroutine never terminates while the flag is
\* unset.
C14_FinishedOnlyWhenStopped ==
    \A t \in TaskIds : Finished(t) => stop_event

Forwarded(i) == \E n \in 1..Len(forwarded) : forwarded[n] = i

C16_SingleHeldLoop ==
    /\ Cardinality({t \in TaskIds : Alive(t)}) <= 1
    /\ \A t \in TaskIds : Alive(t) => server_task = t

Increasing(s) == \A i, j \in 1..Len(s) : i < j => s[i] < s[j]

\* C17: each accepted payload is handed to the connection at most once; the
\* payloads reach the connection in the order in which the serialize steps of
\* their calls completed; and when no call was made while another was in
\* flight, that order is the order of the calls (calls are numbered in the
\* order they are made).
C17_WireOrder ==
    /\ \A i, j \in 1..Len(wire) : wire[i] = wire[j] => i = j
    /\ wire = SelectSeq(serialized, Handed)
    /\ ~overlap => Increasing(wire)

\* Two overlapping calls: the serialize step of the later call completed
\* first, and its payload reached the connection first.
C17_Witness ==
    /\ overlap
    /\ writes[1].kind = "message" /\ writes[2].kind = "audio"
    /\ serialized = <<2, 1>>
    /\ wire = <<2, 1>>

\* C18: the stop flag, once raised, is never cleared, and it is raised by a
\* step that is no step of a task (a call of stop()).  A task that has not
\* begun when the flag is up, and so every task a start() creates after a
\* stop(), goes from created to finished without forwarding a frame or
\* dequeuing an item; a finished task takes no step.
C18_NotRestartable ==
    [][/\ stop_event => stop_event'
       /\ (~stop_event /\ stop_event') => (tasks' = tasks /\ queue' = queue)
       /\ \A t \in TaskIds :
              /\ (stop_event /\ tasks[t].pc \in {"none", "created"}) =>
                     /\ tasks'[t].pc \in {"none", "created", "done",
                                          "cancelled"}
                     /\ tasks'[t] # tasks[t] =>
                            /\ forwarded' = forwarded
                            /\ heartbeats' = heartbeats
                            /\ queue' = queue
                            /\ unfinished' = unfinished
              /\ Finished(t) => tasks'[t] = tasks[t]
      ]_vars

\* A stop() returned, then start() created task 2, and that task has
\* returned: an item is waiting on the queue, and nothing was ever forwarded.
C18_Witness ==
    /\ stop_event /\ stopReturned
    /\ startsSince >= 1
    /\ server_task = 2 /\ tasks[2].pc = "done"
    /\ queue # <<>>
    /\ forwarded = <<>> /\ heartbeats = 0 /\ dropped = {}

\* C19: a graceful stop does not drain the queue.  Under a raised stop flag a
\* task that completes the forwarding of a frame has forwarded its last
\* (it leaves the iteration in flight and returns), and once stop() has
\* returned no item is dequeued or acknowledged any more: the queue only
\* grows.
C19_StopDoesNotDrain ==
    [][/\ \A t \in TaskIds :
              (stop_event /\ tasks[t].pc \in {"proc", "hb"}
                   /\ tasks'[t].pc # tasks[t].pc) =>
                  \/ tasks'[t].pc \in {"done", "failed"}
                  \/ tasks[t].pc = "proc" /\ tasks'[t].pc = "hb"
       /\ stopReturned =>
              /\ IsPrefix(queue, queue')
              /\ unfinished' >= unfinished
      ]_vars
====
